---- MODULE Spec2Model ----
(***************************************************************************)
(* Model of lineup_review_app.py, the "Fairway Theory: Lineup Review"      *)
(* Streamlit script.  The script is re-run from its first line to its last *)
(* every time an upload widget changes, so every user operation below is   *)
(* "change the uploads, then run the whole script".  The tables the script  *)
(* computes are the state; drawing them (st.dataframe, the matplotlib      *)
(* heatmap) and writing them to the Excel buffer are left out.             *)
(*                                                                         *)
(* Encoding of values:                                                     *)
(*   - a player name is a natural number 1, 2, ...; the order of the       *)
(*     numbers is the order Python's sorted() gives the names;             *)
(*   - 0 is a cell of a header line (a column title, never a player);      *)
(*   - a value that pandas may hold as NaN / Python as None is a sequence  *)
(*     of length 0 or 1: << >> is NaN/None, <<v>> is the value v;          *)
(*   - GTO ownership is in hundredths of a percent (2.75 % is 275);        *)
(*   - a quotient a / b is the pair <<a, b>>.                              *)
(***************************************************************************)
EXTENDS Integers, Sequences, FiniteSets

\* ------------------------------------------------------------------ bounds
\* Most CSV lines (header lines included) over all uploaded files, in Spec.
MaxRows == 4
\* The same, in SpecRoster (which draws the roster from a larger set).
MaxRowsRoster == 3

\* ------------------------------------------------------- program constants
\* np.linspace(min_sal, max_sal, 5): 5 bin edges, 4 salary buckets.
NumTiers == 4
\* scorecard['GTO_Ownership%'] <= 2.75, in hundredths of a percent.
HighBiasThreshold == 275
\* hb_df['High-Bias Pair Count'] <= 15
HighBiasLimit == 15
\* exposures.nlargest(10)
TopK == 10

\* ------------------------------------------------------------ input domains
FileNames == {"a.csv", "b.csv"}
\* Names that fill lineup slots.
Players == {1, 2}
\* Names a scorecard may list.
RosterNames == {1, 2, 3}
\* A lineup: one CSV line of two player cells.
Lineups == Players \X Players
\* The header line of a lineup file that has one.
HeaderRow == <<0, 0>>
NaN == << >>

\* --------------------------------------------------------------- utilities
Range(s) == {s[i] : i \in DOMAIN s}

Min(S) == CHOOSE x \in S : \A y \in S : x <= y

Max(S) == CHOOSE x \in S : \A y \in S : x >= y

RECURSIVE SumSeq(_)
SumSeq(s) == IF s = << >> THEN 0 ELSE Head(s) + SumSeq(Tail(s))

RECURSIVE SumOver(_, _)
\* The sum of f[x] over x in S.
SumOver(f, S) ==
    IF S = {} THEN 0
    ELSE LET x == CHOOSE y \in S : TRUE IN f[x] + SumOver(f, S \ {x})

RECURSIVE Concat(_)
\* The concatenation of a sequence of sequences.
Concat(ss) == IF ss = << >> THEN << >> ELSE Head(ss) \o Concat(Tail(ss))

RECURSIVE Insert(_, _)
Insert(x, s) ==
    IF s = << >> THEN <<x>>
    ELSE IF x <= Head(s) THEN <<x>> \o s
    ELSE <<Head(s)>> \o Insert(x, Tail(s))

RECURSIVE Sorted(_)
\* Python's sorted(l).
Sorted(l) == IF l = << >> THEN << >> ELSE Insert(Head(l), Sorted(Tail(l)))

\* How many slots of the lineup hold the player.
Occurrences(l, p) == Cardinality({i \in DOMAIN l : l[i] = p})

\* ------------------------------------------------- scorecard and its tiers
\* A scorecard row: Salary is NaN or <<salary>>, GTO is the GTO_Ownership%.
\* The scorecard is a function from the names it lists to their rows.
Priced(sc) == {n \in DOMAIN sc : sc[n].Salary # NaN}

MinSal(sc) == Min({sc[n].Salary[1] : n \in Priced(sc)})

MaxSal(sc) == Max({sc[n].Salary[1] : n \in Priced(sc)})

\* np.linspace(min_sal, max_sal, 5), every edge multiplied by NumTiers so that
\* it stays an integer: edge i is min_sal + i * (max_sal - min_sal) / NumTiers.
\* Without a salary in the scorecard min and max are NaN, and so are the edges.
Bins(sc) ==
    IF Priced(sc) = {} THEN NaN
    ELSE [i \in 0..NumTiers |-> NumTiers * MinSal(sc) + i * (MaxSal(sc) - MinSal(sc))]

\* f"${int(bins[i])}-${int(bins[i+1])}": int() drops the fraction.
RangeLabels(b) ==
    [i \in 1..NumTiers |-> <<b[i - 1] \div NumTiers, b[i] \div NumTiers>>]

\* Lines 26-27 raise ValueError: int() of a NaN edge, pd.cut on bin edges that
\* are not unique, pd.cut on labels that are not unique.
CutRaises(b, labels) ==
    \/ b = NaN
    \/ \E i, j \in 0..NumTiers : i # j /\ b[i] = b[j]
    \/ \E i, j \in 1..NumTiers : i # j /\ labels[i] = labels[j]

\* pd.cut(..., include_lowest=True): the index of the bucket (lo, hi] that
\* holds the salary, the first bucket also holding its lower edge.
Cut(b, s) == Min({i \in 1..NumTiers : NumTiers * s <= b[i]})

\* scorecard.set_index('Name')['Tier'].to_dict(): a label, or NaN for a row
\* without a salary.
TierMap(sc, b, labels) ==
    [n \in DOMAIN sc |->
        IF sc[n].Salary = NaN THEN NaN ELSE labels[Cut(b, sc[n].Salary[1])]]

\* ----------------------------------------------------------- lineup builds
\* An uploaded lineup file is [name, csv]: csv is the sequence of its lines.
\* pd.read_csv(uploaded) with the default header='infer': the first line
\* becomes the column names, the lines after it are the rows of the frame.
read_csv(csv) == Tail(csv)

\* pd.read_csv raises EmptyDataError on a file without a line.
ReadRaises(csv) == csv = << >>

\* The files the loop of line 32 reads before it stops: all of them, or those
\* before the first one that makes read_csv raise.
Loaded(files) ==
    LET bad == {i \in DOMAIN files : ReadRaises(files[i].csv)}
    IN  IF bad = {} THEN files ELSE SubSeq(files, 1, Min(bad) - 1)

LoadRaises(files) == \E i \in DOMAIN files : ReadRaises(files[i].csv)

\* builds[uploaded.name] = df: a later file of the same name replaces the frame.
Builds(fs) ==
    [name \in {fs[i].name : i \in DOMAIN fs} |->
        read_csv(fs[Max({i \in DOMAIN fs : fs[i].name = name})].csv)]

\* all_lineups.append(tuple(row)) for every row of every file read.
AllLineups(fs) == Concat([i \in DOMAIN fs |-> read_csv(fs[i].csv)])

\* ---------------------------------------------------------------- exposure
\* flat_players = [p for lineup in all_lineups for p in lineup]
FlatPlayers(lineups) == Concat(lineups)

\* pd.Series(flat_players).value_counts()
ValueCounts(flat) == [p \in Range(flat) |-> Occurrences(flat, p)]

\* One element of exp_counts / total_lineups, as the pair <<count, divisor>>.
Quotient(c, n) == <<c, n>>

\* Mutant of ExposureRaises: the division done on Python numbers, which raises
\* ZeroDivisionError for a zero divisor.
ExposureRaisesOnZero(counts, n) == n = 0

\* exp_counts / total_lineups is a pandas Series divided by an int: numpy
\* gives inf or nan for a zero divisor, it raises no ZeroDivisionError.
ExposureRaises(counts, n) == FALSE

\* exposures = exp_counts / total_lineups, element by element.
Exposures(counts, n) == [p \in DOMAIN counts |-> Quotient(counts[p], n)]

\* The left merge of lines 47-58: exposure in percent beside the GTO target,
\* NaN for a name the scorecard does not list.
DisplayExposure(counts, n, sc) ==
    [p \in DOMAIN counts |->
        [exposure_pct |-> Quotient(100 * counts[p], n),
         gto          |-> IF p \in DOMAIN sc THEN <<sc[p].GTO>> ELSE NaN]]

\* ----------------------------------------------------------- overlap matrix
\* Mutant of Canonical: the row kept in file order, tuple(l).
CanonicalUnsorted(l) == l

\* tuple(sorted(l))
Canonical(l) == Sorted(l)

\* {tuple(sorted(l)) for l in df.itertuples(index=False, name=None)}
LineupSet(df) == {Canonical(df[i]) : i \in DOMAIN df}

\* overlap.loc[a, b] = len(lineup_sets[a] & lineup_sets[b])
Overlap(bs) ==
    [a \in DOMAIN bs |-> [b \in DOMAIN bs |->
        Cardinality(LineupSet(bs[a]) \cap LineupSet(bs[b]))]]

\* ---------------------------------------------------------- high-bias pairs
\* scorecard[scorecard['GTO_Ownership%'] <= 2.75]['Name'].tolist()
LowOwnPlayers(sc) == {n \in DOMAIN sc : sc[n].GTO <= HighBiasThreshold}

\* itertools.combinations(s, 2): the pairs (s[i], s[j]) with i < j.
Combinations2(s) ==
    {<<s[q[1]], s[q[2]]>> : q \in {r \in (DOMAIN s) \X (DOMAIN s) : r[1] < r[2]}}

\* lows = [p for p in lineup if p in low_own_players], then the pairs of
\* sorted(lows).
LineupPairs(l, low) ==
    Combinations2(Sorted(SelectSeq(l, LAMBDA p : p \in low)))

\* Mutant of HighBiasPairs: `pairs = set()` moved into the loop over the
\* lineups, so that only the pairs of the last lineup are left.
HighBiasPairsOfLast(df, low) ==
    IF df = << >> THEN {} ELSE LineupPairs(df[Len(df)], low)

\* The set `pairs` of one build after the loop of line 82.
HighBiasPairs(df, low) == UNION {LineupPairs(df[i], low) : i \in DOMAIN df}

\* hb_df: the pair count of every build and its 'Within Limit' flag.
HighBias(bs, low) ==
    [name \in DOMAIN bs |->
        LET c == Cardinality(HighBiasPairs(bs[name], low))
        IN  [count |-> c, within_limit |-> c <= HighBiasLimit]]

\* ------------------------------------------------------ salary tier records
\* tier_map.get(player): << >> is None, <<t>> is the entry t.
TierGet(tm, p) == IF p \in DOMAIN tm THEN <<tm[p]>> ELSE << >>

\* `if tier:` None is false; a label (a non-empty string) and NaN are true.
Truthy(g) == g # << >>

\* cnt[tier] += 1 raises KeyError when tier is no key of cnt (NaN).
CountRaises(tm, labels, l) ==
    \E i \in DOMAIN l :
        /\ Truthy(TierGet(tm, l[i]))
        /\ TierGet(tm, l[i])[1] \notin Range(labels)

\* Mutant of TierCount: the loop run over set(lineup), one increment per
\* distinct player.
TierCountOfSet(tm, labels, l) ==
    [lab \in Range(labels) |->
        Cardinality({p \in Range(l) : TierGet(tm, p) = <<lab>>})]

\* cnt of one lineup: one increment per slot whose player has a tier.
TierCount(tm, labels, l) ==
    [lab \in Range(labels) |->
        Cardinality({i \in DOMAIN l : TierGet(tm, l[i]) = <<lab>>})]

TierRaises(tm, labels, lineups) ==
    \E i \in DOMAIN lineups : CountRaises(tm, labels, lineups[i])

\* tier_records when the loop of line 96 ends: a record per lineup, or the
\* records of the lineups before the one that raised.
TierRecords(tm, labels, lineups) ==
    LET bad == {i \in DOMAIN lineups : CountRaises(tm, labels, lineups[i])}
        n   == IF bad = {} THEN Len(lineups) ELSE Min(bad) - 1
    IN  [i \in 1..n |-> TierCount(tm, labels, lineups[i])]

\* tier_df.mean(): the mean count of every tier, no column for no record.
AvgTiers(recs, labels) ==
    IF recs = << >> THEN << >>
    ELSE [lab \in Range(labels) |->
            <<SumSeq([i \in DOMAIN recs |-> recs[i][lab]]), Len(recs)>>]

\* tier_df.apply(pd.Series.value_counts).fillna(0): for every count value
\* that occurs and every tier, the number of lineups with that count.
CompDist(recs, labels) ==
    [v \in {recs[i][lab] : i \in DOMAIN recs, lab \in Range(labels)} |->
        [lab \in Range(labels) |->
            Cardinality({i \in DOMAIN recs : recs[i][lab] = v})]]

\* ------------------------------------------------------------ co-occurrence
\* exposures.nlargest(10).index: the 10 players of largest exposure (all of
\* them when there are fewer); which of several equal ones is pandas' choice.
TopSets(counts) ==
    {S \in SUBSET DOMAIN counts :
        /\ Cardinality(S) = Min({TopK, Cardinality(DOMAIN counts)})
        /\ \A p \in S, q \in DOMAIN counts \ S : counts[p] >= counts[q]}

\* sum(1 for ln in all_lineups if p1 in ln and p2 in ln)
CoMat(top, lineups) ==
    [p1 \in top |-> [p2 \in top |->
        Cardinality({i \in DOMAIN lineups :
            p1 \in Range(lineups[i]) /\ p2 \in Range(lineups[i])})]]

\* ------------------------------------------------------------------- state
VARIABLES
    scorecard_file,   \* NaN (nothing uploaded) or <<scorecard>>
    lineup_files,     \* the uploaded lineup files, in upload order
    status,           \* how the last run of the script ended
    bins,             \* the 5 bucket edges (times NumTiers)
    range_labels,     \* the 4 tier labels
    tier_map,         \* name -> tier label (NaN without a salary)
    builds,           \* file name -> rows of its frame
    all_lineups,      \* the rows of every file read
    total_lineups,
    exp_counts,       \* player -> number of slots filled
    exposures,        \* player -> exp_counts / total_lineups
    display_exposure,
    overlap,
    hb_df,
    tier_records,
    comp_dist,
    avg_tiers,
    top10,
    co_mat

vars == <<scorecard_file, lineup_files, status, bins, range_labels, tier_map,
          builds, all_lineups, total_lineups, exp_counts, exposures,
          display_exposure, overlap, hb_df, tier_records, comp_dist, avg_tiers,
          top10, co_mat>>

\* The value of a name the run never assigned.
Unset == << >>

\* How a run of the script on the uploads sf and files ends: "idle" when the
\* test of line 17 fails, the exception of the first stage that raises, or
\* "done".
Outcome(sf, files) ==
    IF sf = NaN \/ files = << >> THEN "idle"
    ELSE LET sc      == sf[1]
             b       == Bins(sc)
             labels  == IF b = NaN THEN Unset ELSE RangeLabels(b)
         IN  IF CutRaises(b, labels) THEN "ValueError"
             ELSE IF LoadRaises(files) THEN "EmptyDataError"
             ELSE LET lineups == AllLineups(files)
                  IN  IF ExposureRaises(ValueCounts(FlatPlayers(lineups)), Len(lineups))
                      THEN "ZeroDivisionError"
                      ELSE IF TierRaises(TierMap(sc, b, labels), labels, lineups)
                      THEN "KeyError"
                      ELSE "done"

\* The stages a run that ended with status st has completed.
Tiered(st) == st \notin {"idle", "ValueError"}

Read(st) == st \notin {"idle", "ValueError", "EmptyDataError"}

Exposed(st) == st \in {"KeyError", "done"}

\* One run of the script, lines 17-141, on the uploads sf and files.  Every
\* name is assigned from the names assigned before it, as in the script.  A
\* stage that raises ends the run: the names after it stay unassigned.
Run(sf, files) ==
    /\ scorecard_file' = sf
    /\ lineup_files' = files
    /\ status' = Outcome(sf, files)
    /\ bins' = IF status' # "idle" THEN Bins(sf[1]) ELSE Unset
    /\ range_labels' = IF bins' # NaN THEN RangeLabels(bins') ELSE Unset
    /\ tier_map' =
          IF Tiered(status') THEN TierMap(sf[1], bins', range_labels') ELSE Unset
    /\ builds' = IF Tiered(status') THEN Builds(Loaded(files)) ELSE Unset
    /\ all_lineups' = IF Tiered(status') THEN AllLineups(Loaded(files)) ELSE Unset
    /\ total_lineups' = IF Read(status') THEN Len(all_lineups') ELSE 0
    /\ exp_counts' =
          IF Read(status') THEN ValueCounts(FlatPlayers(all_lineups')) ELSE Unset
    /\ exposures' =
          IF Exposed(status') THEN Exposures(exp_counts', total_lineups') ELSE Unset
    /\ display_exposure' =
          IF Exposed(status')
          THEN DisplayExposure(exp_counts', total_lineups', sf[1]) ELSE Unset
    /\ overlap' = IF Exposed(status') THEN Overlap(builds') ELSE Unset
    /\ hb_df' =
          IF Exposed(status') THEN HighBias(builds', LowOwnPlayers(sf[1])) ELSE Unset
    /\ tier_records' =
          IF Exposed(status')
          THEN TierRecords(tier_map', range_labels', all_lineups') ELSE Unset
    /\ comp_dist' =
          IF status' = "done" THEN CompDist(tier_records', range_labels') ELSE Unset
    /\ avg_tiers' =
          IF status' = "done" THEN AvgTiers(tier_records', range_labels') ELSE Unset
    /\ IF status' = "done"
       THEN \E top \in TopSets(exp_counts') :
                /\ top10' = top
                /\ co_mat' = CoMat(top, all_lineups')
       ELSE top10' = {} /\ co_mat' = Unset

\* ------------------------------------------------------------ the uploads
\* The scorecards of Spec: every name listed with its own salary, player 1
\* at the high-bias threshold, the others at or above it.
Scorecards ==
    {[n \in RosterNames |->
        [Salary |-> <<3000 * n>>, GTO |-> IF n = 1 THEN HighBiasThreshold ELSE g]] :
     g \in {HighBiasThreshold, 300}}

\* The scorecards of SpecRoster: any names listed, with any salary or none.
ScorecardsWide ==
    UNION {[S -> [Salary : {NaN, <<3000>>, <<3001>>, <<7000>>, <<9000>>},
                  GTO : {HighBiasThreshold}]] : S \in SUBSET RosterNames}

\* The CSV lines of all uploaded files.
TotalRows(files) == SumSeq([i \in DOMAIN files |-> Len(files[i].csv)])

\* The first line of a file: a header line, or, in a file without one, a
\* lineup.  read_csv makes column names of either, whatever it holds, so one
\* lineup stands for all.
FirstLines == {<<HeaderRow>>, <<(<<1, 2>>)>>}

\* A file of no line at all.
EmptyFile == << >>

Init ==
    /\ scorecard_file = NaN
    /\ lineup_files = << >>
    /\ status = "idle"
    /\ bins = Unset
    /\ range_labels = Unset
    /\ tier_map = Unset
    /\ builds = Unset
    /\ all_lineups = Unset
    /\ total_lineups = 0
    /\ exp_counts = Unset
    /\ exposures = Unset
    /\ display_exposure = Unset
    /\ overlap = Unset
    /\ hb_df = Unset
    /\ tier_records = Unset
    /\ comp_dist = Unset
    /\ avg_tiers = Unset
    /\ top10 = {}
    /\ co_mat = Unset

\* The user uploads (or replaces) the scorecard.
UploadScorecard(cards) ==
    \E sc \in cards : Run(<<sc>>, lineup_files)

\* The user adds a lineup file to the uploader.
UploadLineupFile(names, firsts, maxFiles, maxRows) ==
    /\ Len(lineup_files) < maxFiles
    /\ \E name \in names, csv \in firsts :
        /\ TotalRows(lineup_files) + Len(csv) <= maxRows
        /\ Run(scorecard_file, Append(lineup_files, [name |-> name, csv |-> csv]))

\* The user uploads a file again with one more lineup at its end.
AppendLineup(maxRows) ==
    /\ TotalRows(lineup_files) < maxRows
    /\ \E i \in DOMAIN lineup_files, l \in Lineups :
        Run(scorecard_file, [lineup_files EXCEPT ![i].csv = Append(@, l)])

\* Spec: two scorecards, any number of non-empty files.  The script treats
\* all file names alike, so the first file is always a.csv.
Next ==
    \/ UploadScorecard(Scorecards)
    \/ UploadLineupFile(IF lineup_files = << >> THEN {"a.csv"} ELSE FileNames,
                        FirstLines, MaxRows, MaxRows)
    \/ AppendLineup(MaxRows)

Spec == Init /\ [][Next]_vars

\* SpecRoster: any scorecard, uploaded once; one file, which may be empty.
NextRoster ==
    \/ scorecard_file = NaN /\ UploadScorecard(ScorecardsWide)
    \/ UploadLineupFile({"a.csv"}, FirstLines \cup {EmptyFile}, 1, MaxRowsRoster)
    \/ AppendLineup(MaxRowsRoster)

SpecRoster == Init /\ [][NextRoster]_vars

\* ================================================================= claims
\* The scorecard of the current uploads.
scorecard == scorecard_file[1]

\* The file starts with a header line.
Headered(f) == f.csv # << >> /\ f.csv[1] = HeaderRow

\* The lineups the file lists: every line but the header line.
LineupLines(f) == IF Headered(f) THEN Tail(f.csv) ELSE f.csv

\* The lineup as a multiset of players: its identity whatever the order.
BagOfLineup(l) == [p \in Range(l) |-> Occurrences(l, p)]

DistinctLineups(df) == {BagOfLineup(df[i]) : i \in DOMAIN df}

\* The scorecard gives the player a salary, hence a tier.
HasTier(p) == p \in DOMAIN scorecard /\ scorecard[p].Salary # NaN

TieredSlots(l) == {k \in DOMAIN l : HasTier(l[k])}

TierSum(rec) == SumOver(rec, DOMAIN rec)

\* The unordered pairs {p, q} of low-ownership players that fill two slots of
\* the lineup.
LowPairsOf(l) ==
    {{l[q[1]], l[q[2]]} :
        q \in {r \in (DOMAIN l) \X (DOMAIN l) :
                /\ r[1] # r[2]
                /\ l[r[1]] \in LowOwnPlayers(scorecard)
                /\ l[r[2]] \in LowOwnPlayers(scorecard)}}

\* Those of all the lineups of a build.
CoOccurringLowPairs(df) == UNION {LowPairsOf(df[i]) : i \in DOMAIN df}

\* C1: every player of the exposure table has an exposure, appearances in the
\* flattened slots over the number of lineups N, between 0 and 1.
C1_ExposureWithinUnit ==
    (Exposed(status) /\ total_lineups > 0) =>
        \A p \in DOMAIN exposures :
            /\ exposures[p] = <<Occurrences(FlatPlayers(all_lineups), p), total_lineups>>
            /\ 0 <= exposures[p][1]
            /\ exposures[p][1] <= exposures[p][2]

\* C2: overlap[a][b] is the number of distinct order-independent lineups that
\* sets a and b share; it is symmetric, and its diagonal is the number of
\* distinct order-independent lineups of the set.
C2_OverlapCountsSharedLineups ==
    Exposed(status) =>
        /\ DOMAIN overlap = DOMAIN builds
        /\ \A a, b \in DOMAIN builds :
            /\ overlap[a][b] =
                 Cardinality(DistinctLineups(builds[a]) \cap DistinctLineups(builds[b]))
            /\ overlap[a][b] = overlap[b][a]
            /\ overlap[a][a] = Cardinality(DistinctLineups(builds[a]))

\* Two sets share one lineup, which they list in different orders.
C2_Witness ==
    /\ Exposed(status)
    /\ \E a, b \in DOMAIN builds :
        /\ a # b
        /\ overlap[a][b] = 1
        /\ overlap[b][a] = 1
        /\ overlap[a][a] = 1
        /\ \A i \in DOMAIN builds[a], j \in DOMAIN builds[b] :
              builds[a][i] # builds[b][j]

\* C3: the exposure denominator N is the sum of the sizes of the lineup sets
\* kept in builds.
C3_TotalIsSumOfBuilds ==
    Read(status) =>
        total_lineups = SumOver([a \in DOMAIN builds |-> Len(builds[a])], DOMAIN builds)

\* C4: every lineup line of every uploaded file, with or without a header
\* line, is loaded as one lineup, and no header cell is counted as a player.
C4_EveryRowIsALineup ==
    Read(status) =>
        /\ all_lineups = Concat([i \in DOMAIN lineup_files |-> LineupLines(lineup_files[i])])
        /\ 0 \notin DOMAIN exp_counts

\* C5: the per-tier counts of a lineup sum to at most the lineup size, and to
\* the lineup size when every player of the lineup has a tier.
C5_TierCountsWithinLineupSize ==
    /\ status = "done" => DOMAIN tier_records = DOMAIN all_lineups
    /\ Exposed(status) =>
        \A i \in DOMAIN tier_records :
            /\ DOMAIN tier_records[i] = Range(range_labels)
            /\ TierSum(tier_records[i]) <= Len(all_lineups[i])
            /\ TieredSlots(all_lineups[i]) = DOMAIN all_lineups[i]
                  => TierSum(tier_records[i]) = Len(all_lineups[i])

\* A finished run with a lineup whose players all have a tier, one of them in
\* two slots, and a lineup with a player without a tier.
C5_Witness ==
    /\ status = "done"
    /\ \E i, j \in DOMAIN tier_records :
        /\ all_lineups[i][1] = all_lineups[i][2]
        /\ TierSum(tier_records[i]) = Len(all_lineups[i])
        /\ TierSum(tier_records[j]) = 1

\* C6: a lineup player without a tier (not in the scorecard, or listed without
\* a salary) is tolerated: the run completes, the player has an exposure, and
\* the player increments no tier bucket.
C6_UntieredPlayerTolerated ==
    (Read(status) /\ \E i \in DOMAIN all_lineups :
                        TieredSlots(all_lineups[i]) # DOMAIN all_lineups[i]) =>
        /\ status = "done"
        /\ \A i \in DOMAIN all_lineups :
            /\ Range(all_lineups[i]) \subseteq DOMAIN exposures
            /\ TierSum(tier_records[i]) = Cardinality(TieredSlots(all_lineups[i]))

\* C7: for the top 10 players by exposure (all of them when fewer), cell
\* (p1, p2) is the number of lineups holding both, the matrix is symmetric,
\* and cell (p, p) is the appearance count of p.
C7_CoOccurrenceMatrix ==
    status = "done" =>
        /\ top10 \subseteq DOMAIN exp_counts
        /\ Cardinality(top10) = Min({TopK, Cardinality(DOMAIN exp_counts)})
        /\ \A p1, p2 \in top10 :
            /\ co_mat[p1][p2] =
                 Cardinality({i \in DOMAIN all_lineups :
                    {p1, p2} \subseteq Range(all_lineups[i])})
            /\ co_mat[p1][p2] = co_mat[p2][p1]
            /\ co_mat[p1][p1] = exp_counts[p1]

\* C8: with the scorecard unchanged, appending a lineup to a lineup set never
\* lowers its high-bias pair count, and the count is the number of distinct
\* unordered pairs of low-ownership players that share a lineup of the set.
C8_PairCountNeverDecreases ==
    [][\A a \in FileNames :
        (/\ Exposed(status) /\ Exposed(status')
         /\ scorecard_file' = scorecard_file
         /\ a \in DOMAIN builds /\ a \in DOMAIN builds'
         /\ \E l \in Lineups : builds'[a] = Append(builds[a], l))
        => /\ hb_df'[a].count >= hb_df[a].count
           /\ hb_df[a].count = Cardinality(CoOccurringLowPairs(builds[a]))
           /\ hb_df'[a].within_limit = (hb_df'[a].count <= HighBiasLimit)]_vars

\* A set of two lineups that hold the same pair of low-ownership players: the
\* pair is counted once.
C8_Witness ==
    /\ Exposed(status)
    /\ \E a \in DOMAIN builds :
        /\ Len(builds[a]) = 2
        /\ builds[a][1] # builds[a][2]
        /\ Range(builds[a][1]) = {1, 2}
        /\ Range(builds[a][2]) = {1, 2}
        /\ {1, 2} \subseteq LowOwnPlayers(scorecard)
        /\ hb_df[a].count = 1

\* C9: every scorecard player with a salary gets exactly one of 4 tiers, the
\* consecutive equal-length intervals of [min_salary, max_salary]: the lowest
\* tier for the minimum salary, the highest for the maximum, and never a lower
\* tier for a higher salary; for every scorecard, one of equal salaries too.
C9_EveryPricedPlayerTiered ==
    (status # "idle" /\ ~LoadRaises(lineup_files) /\ Priced(scorecard) # {}) =>
        /\ Tiered(status)
        /\ \A i \in 1..NumTiers :
              bins[i] - bins[i - 1] = MaxSal(scorecard) - MinSal(scorecard)
        /\ \A n \in Priced(scorecard) :
            /\ \E i \in 1..NumTiers :
                /\ tier_map[n] = range_labels[i]
                /\ \A j \in 1..NumTiers : tier_map[n] = range_labels[j] => j = i
            /\ scorecard[n].Salary[1] = MinSal(scorecard) => tier_map[n] = range_labels[1]
            /\ scorecard[n].Salary[1] = MaxSal(scorecard) => tier_map[n] = range_labels[NumTiers]
        /\ \A n, m \in Priced(scorecard), i, j \in 1..NumTiers :
              (/\ scorecard[n].Salary[1] < scorecard[m].Salary[1]
               /\ tier_map[n] = range_labels[i]
               /\ tier_map[m] = range_labels[j]) => i <= j

\* C10: when a scorecard and lineup files are uploaded but there is no lineup
\* at all, the exposure calculation does not fail on the division by zero:
\* the run completes and the exposure table is empty.
C10_NoLineupsNoFailure ==
    (Read(status) /\ total_lineups = 0) =>
        /\ status = "done"
        /\ exposures = << >>
        /\ co_mat = << >>

\* A run on a good scorecard and two files that hold no lineup.
C10_Witness ==
    /\ status = "done"
    /\ total_lineups = 0
    /\ Len(lineup_files) = 2

====
